---- MODULE Spec2Model ----
(***************************************************************************)
(* loggen (src/src/main.rs): replays every regular file of an input tree   *)
(* line by line into the mirrored file of an output tree.  run() walks the *)
(* tree and deals the files to parallelism_num partitions, one thread per  *)
(* non-empty partition runs generate(), which visits its GenInput items in *)
(* a fixed cycle: read one line and write it, or at end of input apply the *)
(* wrap strategy (truncate / append / rotate) and seek back to offset 0.   *)
(*                                                                         *)
(* Files are byte sequences.  The output tree is a directory (path ->      *)
(* inode) plus the inodes' contents, so that a rename moves an inode, an   *)
(* open handle keeps writing to the inode it was opened on, and a          *)
(* LineWriter holds back the bytes that follow the last line terminator.   *)
(***************************************************************************)
EXTENDS Integers, Sequences, FiniteSets, TLC

\* ---------------------------------------------------------------- bounds
MaxFiles == 3
MaxWorkers == 2
MaxTurns == 7
MaxRunTurns == 4
MaxErrs == 1

\* ----------------------------------------------------------------- bytes
NL == 10
NUL == 0
FirstNonAscii == 128

Min(S) == CHOOSE x \in S : \A y \in S : x <= y
Last(s) == s[Len(s)]
Range(s) == {s[k] : k \in 1..Len(s)}

RECURSIVE Repeat(_, _)
Repeat(s, n) == IF n = 0 THEN <<>> ELSE s \o Repeat(s, n - 1)

\* ----------------------------------------------------------------- paths
\* A path below the output directory is <<file stem, extension>>; the input
\* file with the same relative path is mirrored onto it (main.rs:172-173).
PathSeq == << <<"a", "log">>, <<"a", "txt">>, <<"a", "rotated">>,
              <<"b", "log">>, <<"b", "rotated">> >>
AllPaths == Range(PathSeq)
InPaths == {<<"a", "log">>, <<"a", "txt">>, <<"a", "rotated">>, <<"b", "log">>}

\* Path::with_extension: the extension is replaced, not appended.
with_extension(p, ext) == <<p[1], ext>>

\* ------------------------------------------------------------ filesystem
NoFile == 0
Inodes == 1..(Len(PathSeq) + MaxFiles + 1)

\* The inodes some open write handle refers to.
Held(wd) == UNION {{wd[w][k].writer.ino : k \in 1..Len(wd[w])} : w \in DOMAIN wd}

Live(d, held) == {d[p] : p \in AllPaths} \cup held

\* A file that is unlinked and closed is gone; its inode number is free.
Reclaim(d, dt, held) == [i \in Inodes |-> IF i \in Live(d, held) THEN dt[i] ELSE <<>>]

FreshIno(d, held) == Min(Inodes \ Live(d, held))

\* write(2) through a handle: at the end of the file under O_APPEND, else
\* at the handle's own offset, zero-filling a gap left by a truncation.
Pad(s, n) == s \o [k \in 1..(n - Len(s)) |-> NUL]
file_write(h, bytes, dt) ==
  IF bytes = <<>> THEN [h |-> h, dt |-> dt]
  ELSE IF h.append
  THEN [h |-> h, dt |-> [dt EXCEPT ![h.ino] = @ \o bytes]]
  ELSE LET old == IF Len(dt[h.ino]) < h.pos THEN Pad(dt[h.ino], h.pos) ELSE dt[h.ino]
           end == h.pos + Len(bytes)
       IN [h  |-> [h EXCEPT !.pos = end],
           dt |-> [dt EXCEPT ![h.ino] =
                     SubSeq(old, 1, h.pos) \o bytes \o SubSeq(old, end + 1, Len(old))]]

\* Drop of a LineWriter: the bytes it still holds are flushed to its file.
drop(h, dt) == file_write(h, h.buf, dt).dt

\* OpenOptions::open with create: the file at the path, created empty when
\* there is none; truncate(true) empties an existing file.
open_create(p, trunc, d, dt, held) ==
  LET ino == IF d[p] = NoFile THEN FreshIno(d, held) ELSE d[p]
  IN [ino |-> ino,
      d   |-> [d EXCEPT ![p] = ino],
      dt  |-> IF d[p] = NoFile \/ trunc THEN [dt EXCEPT ![ino] = <<>>] ELSE dt]

\* std::fs::rename: fails when there is no file at `from`; renaming a file
\* onto itself does nothing; otherwise the file at `to` is replaced.
rename(from, to, d) ==
  IF d[from] = NoFile THEN [ok |-> FALSE, d |-> d]
  ELSE IF from = to THEN [ok |-> TRUE, d |-> d]
  ELSE [ok |-> TRUE, d |-> [d EXCEPT ![to] = d[from], ![from] = NoFile]]

\* LineWriter::new over a freshly opened file.
LineWriter(ino, append) == [ino |-> ino, append |-> append, pos |-> 0, buf |-> <<>>]

\* -------------------------------------------------------------- GenInput
\* struct GenInput: `input` is the content of the file behind `reader`,
\* `reader` the offset of the next unread byte.
new(path_in, input, path_out, d, dt, held) ==
  LET o == open_create(path_out, FALSE, d, dt, held)
  IN [item |-> [path_in |-> path_in, path_out |-> path_out, input |-> input,
                reader |-> 0, writer |-> LineWriter(o.ino, TRUE)],
      d |-> o.d, dt |-> o.dt]

truncate_keep(item, d, dt, held, failOpen) ==
  IF failOpen THEN [ok |-> FALSE, item |-> item, d |-> d, dt |-> dt]
  ELSE LET o == open_create(item.path_out, FALSE, d, dt, held)
       IN [ok |-> TRUE,
           item |-> [item EXCEPT !.writer = LineWriter(o.ino, TRUE)],
           d |-> o.d,
           dt |-> drop(item.writer, o.dt)]

truncate(item, d, dt, held, failOpen) ==
  IF failOpen THEN [ok |-> FALSE, item |-> item, d |-> d, dt |-> dt]
  ELSE LET o == open_create(item.path_out, TRUE, d, dt, held)
       IN [ok |-> TRUE,
           item |-> [item EXCEPT !.writer = LineWriter(o.ino, FALSE)],
           d |-> o.d,
           dt |-> drop(item.writer, o.dt)]

rotate(item, d, dt, held, failRename, failOpen) ==
  LET r == IF failRename THEN [ok |-> FALSE, d |-> d]
           ELSE rename(item.path_out, with_extension(item.path_out, "rotated"), d)
  IN IF ~r.ok THEN [ok |-> FALSE, item |-> item, d |-> d, dt |-> dt]
     ELSE IF failOpen THEN [ok |-> FALSE, item |-> item, d |-> r.d, dt |-> dt]
     ELSE LET o == open_create(item.path_out, FALSE, r.d, dt, held)
          IN [ok |-> TRUE,
              item |-> [item EXCEPT !.writer = LineWriter(o.ino, TRUE)],
              d |-> o.d,
              dt |-> drop(item.writer, o.dt)]

\* BufRead::read_line from offset pos: up to and including the next line
\* terminator, or to the end of the file.
read_line(input, pos) ==
  LET nls == {j \in (pos + 1)..Len(input) : input[j] = NL}
  IN SubSeq(input, pos + 1, IF nls = {} THEN Len(input) ELSE Min(nls))

\* (A read that leaves the cursor where it was: what read_line does not do.)
read_stuck(item, failRead) ==
  LET buf == read_line(item.input, item.reader)
  IN IF failRead THEN [res |-> "Err", line |-> <<>>, item |-> item]
     ELSE IF \E k \in 1..Len(buf) : buf[k] >= FirstNonAscii
     THEN [res |-> "Err", line |-> <<>>, item |-> item]
     ELSE IF Len(buf) = 0 THEN [res |-> "None", line |-> <<>>, item |-> item]
     ELSE [res |-> "Some", line |-> buf, item |-> item]

\* GenInput::read.  An I/O error consumes nothing; a line that is no valid
\* UTF-8 is consumed and reported as an error.
read(item, failRead) ==
  LET buf == read_line(item.input, item.reader)
      next == [item EXCEPT !.reader = @ + Len(buf)]
  IN IF failRead THEN [res |-> "Err", line |-> <<>>, item |-> item]
     ELSE IF \E k \in 1..Len(buf) : buf[k] >= FirstNonAscii
     THEN [res |-> "Err", line |-> <<>>, item |-> next]
     ELSE IF Len(buf) = 0 THEN [res |-> "None", line |-> <<>>, item |-> next]
     ELSE [res |-> "Some", line |-> buf, item |-> next]

\* (A write that forgets what the LineWriter held back: what write_all
\* does not do.)
write_losing(item, line, dt, failWrite) ==
  LET w == item.writer
      sent == file_write(w, line, dt)
  IN IF NL \in Range(line)
     THEN IF failWrite
          THEN [ok |-> FALSE, dt |-> dt, item |-> item]
          ELSE [ok |-> TRUE, dt |-> sent.dt,
                item |-> [item EXCEPT !.writer = [sent.h EXCEPT !.buf = <<>>]]]
     ELSE [ok |-> TRUE, dt |-> dt, item |-> [item EXCEPT !.writer.buf = line]]

\* GenInput::write = LineWriter::write_all of one line: a line that ends
\* with the terminator goes to the file together with what was held back,
\* a line without one is held back.
write(item, line, dt, failWrite) ==
  LET w == item.writer
      all == w.buf \o line
      flushed == file_write(w, all, dt)
      stale == w.buf # <<>> /\ Last(w.buf) = NL
      pre == file_write(w, w.buf, dt)
  IN IF NL \in Range(line)
     THEN IF failWrite
          THEN [ok |-> FALSE, dt |-> dt,
                item |-> IF w.buf = <<>> THEN item ELSE [item EXCEPT !.writer.buf = all]]
          ELSE [ok |-> TRUE, dt |-> flushed.dt,
                item |-> [item EXCEPT !.writer = [flushed.h EXCEPT !.buf = <<>>]]]
     ELSE IF stale /\ failWrite THEN [ok |-> FALSE, dt |-> dt, item |-> item]
     ELSE IF stale
     THEN [ok |-> TRUE, dt |-> pre.dt,
           item |-> [item EXCEPT !.writer = [pre.h EXCEPT !.buf = line]]]
     ELSE [ok |-> TRUE, dt |-> dt, item |-> [item EXCEPT !.writer.buf = all]]

\* GenInput::wrap: the `?` returns before the seek when the strategy fails.
seek_none(item) == item
wrap_truncating(item, strategy, d, dt, held, failRename, failOpen) ==
  LET s == CASE strategy \in {"Truncate", "Append"} -> truncate(item, d, dt, held, failOpen)
             [] strategy = "Rotate" -> rotate(item, d, dt, held, failRename, failOpen)
  IN IF s.ok THEN [s EXCEPT !.item = [@ EXCEPT !.reader = 0]] ELSE s
seek_start(item) == [item EXCEPT !.reader = 0]
wrap(item, strategy, d, dt, held, failRename, failOpen) ==
  LET s == CASE strategy = "Truncate" -> truncate(item, d, dt, held, failOpen)
             [] strategy = "Append" -> [ok |-> TRUE, item |-> item, d |-> d, dt |-> dt]
             [] strategy = "Rotate" -> rotate(item, d, dt, held, failRename, failOpen)
  IN IF s.ok THEN [s EXCEPT !.item = seek_start(s.item)] ELSE s

\* ------------------------------------------------------------------ state
VARIABLES
  wrap_strategy,    \* the WrapStrategy given to run
  parallelism_num,  \* the number of partitions
  walk,             \* what WalkDir yields for the input tree, in its order
  dir, data,        \* the output tree: path -> inode, inode -> bytes
  pc,               \* main: "walk", "spawn", "join", "exit" or "failed"
  entry,            \* run: walk entries consumed so far
  counter,          \* run: files dealt so far
  workers_data,     \* the partitions: one sequence of GenInput each
  handed,           \* run: partitions its second loop has gone through
  join_handles,     \* the partitions a thread was spawned for, in order
  wpc,              \* per partition: "none", "turn", "sleep" or "crashed"
  cur,              \* per partition: the item of generate's for loop
  trace,            \* per partition: its turns so far, <<item, outcome>>
  errs,             \* filesystem errors that have occurred during turns
  quota,            \* the number of turns the run is followed for, or Forever
  old,              \* the output tree at the start: path -> content or Absent
  joined,           \* main: join handles it has joined so far
  reported          \* main: the partitions whose thread it reported as failed

vars == <<wrap_strategy, parallelism_num, walk, dir, data, pc, entry, counter,
          workers_data, handed, join_handles, wpc, cur, trace, errs, quota, old, joined, reported>>

Strategies == {"Truncate", "Append", "Rotate"}
Workers == 1..parallelism_num

\* ------------------------------------------------------------------ inputs
Absent == <<-1>>
DirEntry == [kind |-> "dir", rel |-> <<>>, content |-> <<>>]
FileEntry(p, c) == [kind |-> "file", rel |-> p, content |-> c]

PathNo(p) == CHOOSE k \in 1..Len(PathSeq) : PathSeq[k] = p

\* The walks of a tree of m files: its root directory, then the files, all
\* of different paths, in the order of their names or in the reverse order.
FileWalks(paths, contents, m) ==
  {<<DirEntry>> \o [k \in 1..m |-> FileEntry(f[k][1], f[k][2])] :
     f \in {g \in [1..m -> paths \X contents] :
              \/ \A j, k \in 1..m : j < k => PathNo(g[j][1]) < PathNo(g[k][1])
              \/ \A j, k \in 1..m : j < k => PathNo(g[j][1]) > PathNo(g[k][1])}}
Walks(paths, contents, max) == UNION {FileWalks(paths, contents, m) : m \in 0..max}

WalkFiles(wk) == {wk[k].rel : k \in {j \in 1..Len(wk) : wk[j].kind = "file"}}

\* The output tree before the run: `pre` says, for each output path, the
\* content of the file already there, or Absent.
DiskOf(pre) == [i \in Inodes |->
  IF i <= Len(PathSeq) /\ pre[PathSeq[i]] # Absent THEN pre[PathSeq[i]] ELSE <<>>]
DirOf(pre) == [p \in AllPaths |-> IF pre[p] = Absent THEN NoFile ELSE PathNo(p)]

InitOver(walks, nums, strategies, olds, turns) ==
  /\ walk \in walks
  /\ parallelism_num \in nums
  /\ wrap_strategy \in strategies
  /\ \E pre \in [AllPaths -> olds \cup {Absent}] :
       /\ \A p \in AllPaths \ WalkFiles(walk) : pre[p] = Absent
       /\ dir = DirOf(pre)
       /\ data = DiskOf(pre)
       /\ old = pre
  /\ pc = "walk"
  /\ entry = 0
  /\ counter = 0
  /\ workers_data = [w \in Workers |-> <<>>]
  /\ handed = 0
  /\ join_handles = <<>>
  /\ wpc = [w \in Workers |-> "none"]
  /\ cur = [w \in Workers |-> 1]
  /\ trace = [w \in Workers |-> <<>>]
  /\ errs = 0
  /\ quota = turns
  /\ joined = 0
  /\ reported = <<>>

\* --------------------------------------------------------------------- run
\* The partition (0-based) of the file dealt when `c` files were dealt before.
index_early(c, n) == (c + 1) % n
index(c, n) == c % n

\* An entry that is no regular file is passed over.
WalkSkip ==
  /\ pc = "walk" /\ entry < Len(walk)
  /\ walk[entry + 1].kind # "file"
  /\ entry' = entry + 1
  /\ UNCHANGED <<wrap_strategy, parallelism_num, walk, dir, data, pc, counter,
                 workers_data, handed, join_handles, wpc, cur, trace, errs, quota, old, joined, reported>>

\* A regular file: its GenInput is pushed onto partition counter % n.
WalkFile ==
  /\ pc = "walk" /\ entry < Len(walk)
  /\ walk[entry + 1].kind = "file"
  /\ LET e == walk[entry + 1]
         g == new(e.rel, e.content, e.rel, dir, data, Held(workers_data))
         w == index(counter, parallelism_num) + 1
     IN /\ workers_data' = [workers_data EXCEPT ![w] = Append(@, g.item)]
        /\ dir' = g.d
        /\ data' = g.dt
  /\ counter' = counter + 1
  /\ entry' = entry + 1
  /\ UNCHANGED <<wrap_strategy, parallelism_num, walk, pc, handed, join_handles,
                 wpc, cur, trace, errs, quota, old, joined, reported>>

\* create_dir_all or one of the two opens of GenInput::new fails: the `?`
\* makes run return the error.
WalkFail ==
  /\ pc = "walk" /\ entry < Len(walk)
  /\ walk[entry + 1].kind = "file"
  /\ pc' = "failed"
  /\ UNCHANGED <<wrap_strategy, parallelism_num, walk, dir, data, entry, counter,
                 workers_data, handed, join_handles, wpc, cur, trace, errs, quota, old, joined, reported>>

WalkEnd ==
  /\ pc = "walk" /\ entry = Len(walk)
  /\ pc' = "spawn"
  /\ UNCHANGED <<wrap_strategy, parallelism_num, walk, dir, data, entry, counter,
                 workers_data, handed, join_handles, wpc, cur, trace, errs, quota, old, joined, reported>>

\* (Threads spawned while the walk still runs: what run does not do.)
Spawn_early ==
  /\ pc \in {"walk", "spawn"} /\ handed < parallelism_num
  /\ LET w == handed + 1
     IN IF Len(workers_data[w]) > 0
        THEN /\ join_handles' = Append(join_handles, w)
             /\ wpc' = [wpc EXCEPT ![w] = "turn"]
        ELSE UNCHANGED <<join_handles, wpc>>
  /\ handed' = handed + 1
  /\ UNCHANGED <<wrap_strategy, parallelism_num, walk, dir, data, pc, entry, counter,
                 workers_data, cur, trace, errs, quota, old, joined, reported>>

\* (A thread for every partition, empty or not: what run does not do.)
has_items_any(worker_data) == TRUE

\* The second loop of run: a thread for the next partition, if it has items.
has_items(worker_data) == Len(worker_data) > 0
Spawn ==
  /\ pc = "spawn" /\ handed < parallelism_num
  /\ LET w == handed + 1
     IN IF has_items(workers_data[w])
        THEN /\ join_handles' = Append(join_handles, w)
             /\ wpc' = [wpc EXCEPT ![w] = "turn"]
        ELSE UNCHANGED <<join_handles, wpc>>
  /\ handed' = handed + 1
  /\ UNCHANGED <<wrap_strategy, parallelism_num, walk, dir, data, pc, entry, counter,
                 workers_data, cur, trace, errs, quota, old, joined, reported>>

\* run returns Ok(join_handles); main goes on to join them.
Return ==
  /\ pc = "spawn" /\ handed = parallelism_num
  /\ pc' = "join"
  /\ UNCHANGED <<wrap_strategy, parallelism_num, walk, dir, data, entry, counter,
                 workers_data, handed, join_handles, wpc, cur, trace, errs, quota, old, joined, reported>>

\* ---------------------------------------------------------------- generate
\* The threads run as long as the process does: a panic of main ends it.
Running == pc # "panicked"

Faults == {"none", "read", "write", "rename", "open"}
FaultOutcome(f) == CASE f = "read" -> "read_err"
                     [] f = "write" -> "write_err"
                     [] f \in {"rename", "open"} -> "wrap_err"
                     [] OTHER -> "none"

\* One iteration of the for loop on `item`, up to the sleep.
generate(item, strategy, d, dt, held, f) ==
  LET r == read(item, f = "read")
      wr == write(r.item, r.line, dt, f = "write")
      wp == wrap(r.item, strategy, d, dt, held, f = "rename", f = "open")
  IN CASE r.res = "Some" ->
            [outcome |-> IF wr.ok THEN "line" ELSE "write_err",
             item |-> wr.item, d |-> d, dt |-> wr.dt]
       [] r.res = "None" ->
            [outcome |-> IF wp.ok THEN "wrap" ELSE "wrap_err",
             item |-> wp.item, d |-> wp.d, dt |-> wp.dt]
       [] r.res = "Err" ->
            [outcome |-> "read_err", item |-> r.item, d |-> d, dt |-> dt]

\* The item the for loop (inside the endless loop) takes after item i.
next_item_short(i, len) == IF i >= len - 1 THEN 1 ELSE i + 1
next_item(i, len) == IF i = len THEN 1 ELSE i + 1

\* A run followed without end keeps only the last turn of each partition.
Forever == -1
log(t, turn) == IF quota = Forever THEN <<turn>> ELSE Append(t, turn)

\* The eprintln! of an error report panics when standard error cannot be
\* written; the panic unwinds the thread, which drops its items: each
\* LineWriter flushes what it holds.
Reports == {"write_err", "wrap_err", "read_err"}
RECURSIVE unwind(_, _)
unwind(items, dt) ==
  IF items = <<>> THEN dt ELSE unwind(Tail(items), drop(Head(items).writer, dt))
flushed(item) == [item EXCEPT !.writer.buf = <<>>]

\* Every arm of the match falls through to sleep(interval), unless its
\* report panics.
after_turn(outcome, panics) == IF panics THEN "crashed" ELSE "sleep"

Turns == LET RECURSIVE Sum(_)
             Sum(w) == IF w = 0 THEN 0 ELSE Len(trace[w]) + Sum(w - 1)
         IN Sum(parallelism_num)

\* One iteration of the for loop of thread w, up to the sleep or to the
\* panic of its report.
Iteration(w, panics) ==
  /\ Running /\ wpc[w] = "turn"
  /\ has_items(workers_data[w])
  /\ quota = Forever \/ Turns < quota
  /\ \E f \in Faults :
     \E t \in {generate(workers_data[w][cur[w]], wrap_strategy, dir, data,
                         Held(workers_data), f)} :
       LET i == cur[w]
           done == [workers_data EXCEPT ![w][i] = t.item]
           wd == IF panics
                 THEN [done EXCEPT ![w] = [k \in 1..Len(@) |-> flushed(@[k])]]
                 ELSE done
           dt == IF panics THEN unwind(done[w], t.dt) ELSE t.dt
       IN /\ f # "none" => errs < MaxErrs /\ t.outcome = FaultOutcome(f)
          /\ panics => t.outcome \in Reports
          /\ workers_data' = wd
          /\ dir' = t.d
          /\ data' = Reclaim(t.d, dt, Held(wd))
          /\ trace' = [trace EXCEPT ![w] = log(@, <<i, t.outcome>>)]
          /\ errs' = IF f = "none" THEN errs ELSE errs + 1
          /\ wpc' = [wpc EXCEPT ![w] = after_turn(t.outcome, panics)]
  /\ UNCHANGED <<wrap_strategy, parallelism_num, walk, pc, entry, counter, handed,
                 join_handles, cur, quota, old, joined, reported>>

\* The iteration reaches the sleep.
Turn(w) == Iteration(w, FALSE)

\* The iteration ends the thread: the report of its error panics.
Crash(w) == Iteration(w, TRUE)

\* sleep(interval) returns and the loop moves to its next item.
Sleep(w) ==
  /\ Running /\ wpc[w] = "sleep"
  /\ wpc' = [wpc EXCEPT ![w] = "turn"]
  /\ cur' = [cur EXCEPT ![w] = next_item(@, Len(workers_data[w]))]
  /\ UNCHANGED <<wrap_strategy, parallelism_num, walk, dir, data, pc, entry, counter,
                 workers_data, handed, join_handles, trace, errs, quota, old, joined, reported>>

\* ------------------------------------------------------------------- main
\* main joins the handles in the order run pushed them: join returns only
\* when that thread has ended, and a generate thread ends only by a panic,
\* which main reports.
Join ==
  /\ pc = "join" /\ joined < Len(join_handles)
  /\ wpc[join_handles[joined + 1]] = "crashed"
  /\ reported' = Append(reported, join_handles[joined + 1])
  /\ joined' = joined + 1
  /\ UNCHANGED <<wrap_strategy, parallelism_num, walk, dir, data, pc, entry, counter,
                 workers_data, handed, join_handles, wpc, cur, trace, errs, quota, old>>

\* main panics in turn: its eprintln! of the thread's panic cannot be written
\* to standard error either.
JoinPanic ==
  /\ pc = "join" /\ joined < Len(join_handles)
  /\ wpc[join_handles[joined + 1]] = "crashed"
  /\ pc' = "panicked"
  /\ UNCHANGED <<wrap_strategy, parallelism_num, walk, dir, data, entry, counter,
                 workers_data, handed, join_handles, wpc, cur, trace, errs, quota, old,
                 joined, reported>>

\* Every handle is joined: main returns.
Exit ==
  /\ pc = "join" /\ joined = Len(join_handles)
  /\ pc' = "exit"
  /\ UNCHANGED <<wrap_strategy, parallelism_num, walk, dir, data, entry, counter,
                 workers_data, handed, join_handles, wpc, cur, trace, errs, quota, old,
                 joined, reported>>

Next ==
  \/ WalkSkip
  \/ WalkFile
  \/ WalkFail
  \/ WalkEnd
  \/ Spawn
  \/ Return
  \/ Join
  \/ JoinPanic
  \/ Exit
  \/ \E w \in Workers : Turn(w)
  \/ \E w \in Workers : Sleep(w)
  \/ \E w \in Workers : Crash(w)

\* ---------------------------------------------------------- specifications
\* Runs under Rotate, the strategy with the most outcomes of a turn, over a
\* tree of up to MaxFiles one-line files, dealt to up to MaxWorkers
\* partitions, the output tree being empty at the start.
Text == {<<97, NL>>}
Init ==
  InitOver(Walks(InPaths, Text, MaxFiles), 1..MaxWorkers, {"Rotate"}, {}, MaxRunTurns)

Spec == Init /\ [][Next]_vars

\* Runs over a tree of one file, of every shape of content (empty, one or
\* two lines, the last line with or without terminator, a line that is no
\* UTF-8), the output file absent, empty or holding a line at the start.
Contents == {<<>>, <<97, NL>>, <<97>>, <<97, NL, 98, NL>>, <<97, NL, 98>>,
             <<97, NL, 98, 99>>, <<255, NL, 97, NL>>}
Olds == {<<>>, <<120, NL>>}
InitUnit ==
  InitOver(FileWalks(InPaths, Contents, 1), {1}, Strategies, Olds, MaxTurns)

SpecUnit == InitUnit /\ [][Next]_vars

\* Runs under Append over a tree of two files, each of two lines the second
\* of which has no terminator or of one line, dealt to up to MaxWorkers
\* partitions, each output file absent or holding a line at the start.
PairPaths == {<<"a", "log">>, <<"b", "log">>}
PairContents == {<<97, NL, 98>>, <<99, NL>>}
InitPair ==
  InitOver(FileWalks(PairPaths, PairContents, Cardinality(PairPaths)), 1..MaxWorkers,
           {"Append"}, {<<120, NL>>}, MaxTurns)

SpecPair == InitPair /\ [][Next]_vars

\* Runs without end under Truncate or Rotate (the output files stay small)
\* over a tree of up to two one-line files, dealt to up to MaxWorkers
\* partitions.  A thread that can take a step takes one in the end, main
\* and each generate thread alike; which step it is stays open, so no call
\* has to fail and no report has to panic, and at most MaxErrs calls fail.
LivePaths == {<<"a", "log">>, <<"b", "log">>}
InitLive ==
  InitOver(Walks(LivePaths, Text, Cardinality(LivePaths)), 1..MaxWorkers,
           {"Truncate", "Rotate"}, {}, Forever)
Main == WalkSkip \/ WalkFile \/ WalkFail \/ WalkEnd \/ Spawn \/ Return \/ Join \/ JoinPanic \/ Exit
\* A step of a thread's loop, by what it does to the thread's position: from
\* the turn to the sleep (Turn) and from the sleep to the next turn (Sleep).
Thread(w) ==
  /\ w \in Workers /\ Running /\ wpc[w] \in {"turn", "sleep"}
  /\ wpc' = [wpc EXCEPT ![w] = IF @ = "turn" THEN "sleep" ELSE "turn"]

SpecLive ==
  InitLive /\ [][Next]_vars /\ WF_vars(Main) /\ \A w \in 1..MaxWorkers : WF_wpc(Thread(w))

\* ------------------------------------------------------------ observations
\* The units, as <<partition, position>>.
Units == {u \in Workers \X (1..MaxFiles) : u[2] <= Len(workers_data[u[1]])}
Item(u) == workers_data[u[1]][u[2]]

\* The content of the file at a path, Absent when there is none.
FileAt(p) == IF dir[p] = NoFile THEN Absent ELSE data[dir[p]]
Rotated(u) == with_extension(Item(u).path_out, "rotated")

\* The outcomes of the unit's turns so far, in order.
Outs(u) == LET t == trace[u[1]]
               RECURSIVE Pick(_)
               Pick(j) == IF j = 0 THEN <<>>
                          ELSE IF t[j][1] = u[2] THEN Append(Pick(j - 1), t[j][2])
                          ELSE Pick(j - 1)
           IN Pick(Len(t))
UnitTurns(u) == Len(Outs(u))
NoErrors(u) == errs = 0 /\ \A j \in 1..UnitTurns(u) : Outs(u)[j] \in {"line", "wrap"}

\* The unit took the last turn of its partition, with this outcome.
JustDid(u, outcome) ==
  LET t == trace[u[1]] IN t # <<>> /\ Last(t) = <<u[2], outcome>>

\* The number of lines read_line cuts a content into.
NumLines(input) ==
  Cardinality({j \in 1..Len(input) : input[j] = NL})
    + (IF input # <<>> /\ Last(input) # NL THEN 1 ELSE 0)

StartsEmpty(u) == old[Item(u).path_out] \in {Absent, <<>>}

\* ------------------------------------------------------------------ claims
\* C1 as stated: under Append, a unit of K >= 1 input lines whose output
\* file starts empty and that met no error has, after exactly n*K turns,
\* n copies of the input in its output file.
C1_Original ==
  \A u \in Units :
    LET K == NumLines(Item(u).input) IN
    (wrap_strategy = "Append" /\ K >= 1 /\ StartsEmpty(u) /\ NoErrors(u)) =>
      \A n \in 1..UnitTurns(u) :
        UnitTurns(u) = n * K => FileAt(Item(u).path_out) = Repeat(Item(u).input, n)

\* C1 as amended: a pass takes K line turns and one wrap turn, so the n-th
\* copy is complete after n*(K+1)-1 turns; the bytes emitted are then the
\* output file followed by the unterminated tail the LineWriter holds
\* back, and the file alone when the input ends with a line terminator.
C1_Passes ==
  \A u \in Units :
    LET K == NumLines(Item(u).input) IN
    (wrap_strategy = "Append" /\ K >= 1 /\ StartsEmpty(u) /\ NoErrors(u)) =>
      \A n \in 1..UnitTurns(u) :
        UnitTurns(u) = n * (K + 1) - 1 =>
          /\ FileAt(Item(u).path_out) \o Item(u).writer.buf = Repeat(Item(u).input, n)
          /\ Last(Item(u).input) = NL => Item(u).writer.buf = <<>>

\* Two line-terminated lines, two whole passes: five turns, two copies.
C1_Witness ==
  \E u \in Units :
    /\ wrap_strategy = "Append" /\ StartsEmpty(u) /\ NoErrors(u)
    /\ Item(u).input = <<97, NL, 98, NL>>
    /\ UnitTurns(u) = 5
    /\ FileAt(Item(u).path_out) = Repeat(Item(u).input, 2)

\* C2 as stated: under Truncate, right after a turn whose wrap succeeded,
\* the file at the output path is empty and the read cursor is at offset
\* 0, whether or not the input ends with a line terminator.
C2_EmptyAfterTruncate ==
  \A u \in Units :
    (wrap_strategy = "Truncate" /\ JustDid(u, "wrap")) =>
      FileAt(Item(u).path_out) = <<>> /\ Item(u).reader = 0

\* C3 as stated: under Truncate, whatever the output file held at the
\* start, a unit whose cursor is at the end of its input (its turn
\* observes EndOfInput) has at most one copy of the input in its file.
C3_Original ==
  \A u \in Units :
    (wrap_strategy = "Truncate" /\ Item(u).reader = Len(Item(u).input)) =>
      Len(FileAt(Item(u).path_out)) <= Len(Item(u).input)

\* C3 as amended: the same for a unit whose output file was absent or
\* empty at the start.
C3_FromEmpty ==
  \A u \in Units :
    (wrap_strategy = "Truncate" /\ StartsEmpty(u)
       /\ Item(u).reader = Len(Item(u).input)) =>
      Len(FileAt(Item(u).path_out)) <= Len(Item(u).input)

\* At the end of its second pass, after one truncation, the file holds the
\* whole input once.
C3_Witness ==
  \E u \in Units :
    /\ wrap_strategy = "Truncate" /\ StartsEmpty(u)
    /\ Item(u).input = <<97, NL, 98, NL>>
    /\ Item(u).reader = Len(Item(u).input)
    /\ "wrap" \in Range(Outs(u))
    /\ FileAt(Item(u).path_out) = Item(u).input

\* C4 as stated: under Rotate, for a unit of K >= 1 lines whose output path
\* did not exist at the start and that met no error, right after each
\* successful wrap the rotated file is one copy of the input and the file
\* at the output path exists and is empty.
C4_RotatedOneCopy ==
  \A u \in Units :
    (wrap_strategy = "Rotate" /\ NumLines(Item(u).input) >= 1
       /\ old[Item(u).path_out] = Absent /\ NoErrors(u) /\ JustDid(u, "wrap")) =>
      /\ FileAt(Rotated(u)) = Item(u).input
      /\ FileAt(Item(u).path_out) = <<>>

\* C5 as stated: right after a turn whose wrap failed, the read cursor is
\* back at offset 0.
C5_CursorResetOnFailure ==
  \A u \in Units : JustDid(u, "wrap_err") => Item(u).reader = 0

\* The regular files among the walk entries consumed so far, in discovery
\* order; the file of discovery index i (0-based) is Found[i + 1].
Found == LET RECURSIVE Upto(_)
             Upto(j) == IF j = 0 THEN <<>>
                        ELSE IF walk[j].kind = "file" THEN Append(Upto(j - 1), walk[j].rel)
                        ELSE Upto(j - 1)
         IN Upto(entry)

\* C6: every file discovered so far is exactly one unit, the file of
\* discovery index i sits in partition i mod N, behind the files of
\* smaller index and before those of larger index dealt to that partition,
\* and two partition sizes differ by at most 1.
C6_Partitioning ==
  /\ Cardinality(Units) = Len(Found)
  /\ \A i \in 0..(Len(Found) - 1) :
       LET w == (i % parallelism_num) + 1
           k == (i \div parallelism_num) + 1
       IN /\ k <= Len(workers_data[w])
          /\ workers_data[w][k].path_in = Found[i + 1]
          /\ \A u \in Units : Item(u).path_in = Found[i + 1] => u = <<w, k>>
  /\ \A v, w \in Workers : Len(workers_data[v]) - Len(workers_data[w]) <= 1

\* Three files dealt to two partitions: two units and one.
C6_Witness ==
  /\ pc = "spawn" /\ parallelism_num = 2 /\ Len(Found) = 3
  /\ Len(workers_data[1]) = 2 /\ Len(workers_data[2]) = 1

Touched(u) ==
  {Item(u).path_out} \cup (IF wrap_strategy = "Rotate" THEN {Rotated(u)} ELSE {})
C8_DisjointPaths ==
  \A u, v \in Units : u # v => Touched(u) \cap Touched(v) = {}

\* C9: under Append no step shortens a unit's output file, and a wrap turn
\* changes nothing of the unit or of the output tree but the read cursor,
\* which it sets to offset 0.
C9_Step ==
  wrap_strategy = "Append" =>
    \A u \in Units :
      /\ Len(FileAt(Item(u).path_out)') >= Len(FileAt(Item(u).path_out))
      /\ JustDid(u, "wrap")' /\ trace' # trace =>
           /\ Item(u)' = [Item(u) EXCEPT !.reader = 0]
           /\ dir' = dir /\ data' = data
C9_AppendFrame == [][C9_Step]_vars

\* A wrap turn under Append on a file that holds a copy of the input.
C9_Witness ==
  \E u \in Units :
    /\ wrap_strategy = "Append" /\ JustDid(u, "wrap")
    /\ Item(u).input = <<97, NL, 98, NL>>
    /\ FileAt(Item(u).path_out) = <<120, NL>> \o Item(u).input

\* C10 as stated: a unit whose input is empty never emits a line, each of
\* its turns (no I/O error occurring) observes EndOfInput and applies the
\* strategy, and under Rotate right after such a turn the file at the
\* output path has zero bytes and a rotated file exists.
C10_EmptyInput ==
  \A u \in Units :
    (Item(u).input = <<>> /\ NoErrors(u)) =>
      /\ Range(Outs(u)) \subseteq {"wrap"}
      /\ (wrap_strategy = "Rotate" /\ JustDid(u, "wrap")) =>
            /\ FileAt(Item(u).path_out) = <<>>
            /\ FileAt(Rotated(u)) # Absent

\* C11: when run has returned a setup error, no thread was spawned and no
\* partition has taken a turn (and the state allows no further step).
C11_NoWorkerAfterSetupError ==
  pc = "failed" =>
    /\ join_handles = <<>>
    /\ \A w \in Workers : wpc[w] = "none" /\ trace[w] = <<>>
    /\ ~ ENABLED Next

\* The setup fails at the third file, two units being built already.
C11_Witness ==
  pc = "failed" /\ counter = 2 /\ parallelism_num = 2

\* The lines read_line cuts a content into, from an offset on.
RECURSIVE LinesFrom(_, _)
LinesFrom(input, pos) ==
  IF pos >= Len(input) THEN <<>>
  ELSE LET buf == read_line(input, pos)
       IN <<buf>> \o LinesFrom(input, pos + Len(buf))

\* The bytes a write handle has taken so far, as far as its file shows them.
Taken(h) ==
  (IF h.append THEN data[h.ino] ELSE SubSeq(data[h.ino], 1, h.pos)) \o h.buf

\* C12: each turn is one of the arms of the match, and a unit of K >= 1
\* lines that met no error takes its turns with period K+1: turn j emits
\* line ((j-1) mod (K+1)) + 1 to the write handle while that is at most K,
\* and otherwise emits nothing and wraps, leaving the cursor at offset 0.
C12_Step ==
  \A u \in Units :
    LET lines == LinesFrom(Item(u).input, 0)
        K == Len(lines)
        j == UnitTurns(u)'
        r == (j - 1) % (K + 1)
    IN /\ Range(Outs(u)') \subseteq {"line", "write_err", "wrap", "wrap_err", "read_err"}
       /\ (UnitTurns(u)' = UnitTurns(u) + 1 /\ K >= 1 /\ NoErrors(u)') =>
            IF r < K
            THEN /\ JustDid(u, "line")'
                 /\ Taken(Item(u).writer)' = Taken(Item(u).writer) \o lines[r + 1]
                 /\ dir' = dir
                 /\ Item(u).reader' = Item(u).reader + Len(lines[r + 1])
            ELSE /\ JustDid(u, "wrap")'
                 /\ Item(u).reader = Len(Item(u).input)
                 /\ Item(u).reader' = 0
                 /\ Item(u).writer.buf' = <<>> \/ Item(u).writer' = Item(u).writer
C12_Period == [][C12_Step]_vars

\* Two lines, the second without terminator: both emitted, the wrap, and
\* the first line again.
C12_Witness ==
  \E u \in Units :
    /\ Item(u).input = <<97, NL, 98>> /\ NoErrors(u)
    /\ Outs(u) = <<"line", "line", "wrap", "line">>
    /\ Item(u).reader = 2

\* C15 as stated: every turn of a worker, whatever its outcome, is
\* followed by the sleep, from which the worker goes on to the next item
\* (the first one after the last) without taking a turn.
C15_Step ==
  \A w \in Workers :
    /\ trace'[w] # trace[w] =>
         /\ wpc[w] = "turn" /\ wpc'[w] = "sleep"
         /\ Len(trace'[w]) = Len(trace[w]) + 1
         /\ cur'[w] = cur[w]
    /\ (wpc[w] = "sleep" /\ wpc'[w] # "sleep") =>
         /\ trace'[w] = trace[w]
         /\ wpc'[w] = "turn" /\ cur'[w] = next_item(cur[w], Len(workers_data[w]))
C15_SleepAfterTurn == [][C15_Step]_vars

\* C16: a thread is started for a partition exactly when the spawn loop has
\* come to it and it has items; the handles are those threads, each once,
\* in partition order; when run has returned there are min(M, N) of them
\* for M discovered files and N partitions, every unit lies in a partition
\* that has a thread, and a thread takes turns on the units of its own
\* partition only.
C16_OneWorkerPerPartition ==
  /\ \A w \in Workers :
       (wpc[w] # "none") <=> (w <= handed /\ Len(workers_data[w]) > 0)
  /\ Range(join_handles) = {w \in Workers : wpc[w] # "none"}
  /\ \A i, j \in 1..Len(join_handles) : i < j => join_handles[i] < join_handles[j]
  /\ pc \in {"join", "exit"} =>
       /\ Len(join_handles) = Min({Len(Found), parallelism_num})
       /\ \A u \in Units : wpc[u[1]] # "none"
  /\ \A w \in Workers : \A j \in 1..Len(trace[w]) :
       wpc[w] # "none" /\ trace[w][j][1] \in 1..Len(workers_data[w])

\* One file and two partitions: one thread, and it has taken a turn.
C16_Witness ==
  /\ pc = "join" /\ Len(Found) = 1 /\ parallelism_num = 2
  /\ join_handles = <<1>> /\ wpc[2] = "none" /\ trace[1] # <<>>

\* C17 as stated: in every reachable state each unit's write handle refers
\* to the file that is at the unit's output path.
C17_WriterAtOutputPath ==
  \A u \in Units : Item(u).writer.ino = dir[Item(u).path_out]

IsPrefix(s, t) == Len(s) <= Len(t) /\ SubSeq(t, 1, Len(s)) = s

\* The first n lines of the repetition without end of the lines, in a row.
RECURSIVE Stream(_, _)
Stream(lines, n) ==
  IF n = 0 \/ lines = <<>> THEN <<>>
  ELSE Stream(lines, n - 1) \o lines[((n - 1) % Len(lines)) + 1]

\* What the output file of the unit held at the start.
AtStart(u) == LET o == old[Item(u).path_out] IN IF o = Absent THEN <<>> ELSE o
Emitted(u) == Cardinality({j \in 1..UnitTurns(u) : Outs(u)[j] = "line"})

\* C18: under Append, while no error occurred, the output file of a unit is
\* what it held at the start followed by a prefix of the repetition without
\* end of the unit's input; more precisely, followed by the lines the unit
\* has emitted so far, in input order, less the bytes the LineWriter holds.
C18_AppendStream ==
  \A u \in Units :
    (wrap_strategy = "Append" /\ NoErrors(u)) =>
      LET file == FileAt(Item(u).path_out)
          added == SubSeq(file, Len(AtStart(u)) + 1, Len(file))
      IN /\ file # Absent /\ IsPrefix(AtStart(u), file)
         /\ IsPrefix(added, Repeat(Item(u).input, UnitTurns(u) + 1))
         /\ added \o Item(u).writer.buf =
              Stream(LinesFrom(Item(u).input, 0), Emitted(u))

\* Two units of one worker, of different inputs: the first has gone round
\* its two lines and emitted the first again behind what its file held.
C18_Witness ==
  \E u, v \in Units :
    /\ u # v /\ u[1] = v[1] /\ wrap_strategy = "Append" /\ NoErrors(u)
    /\ Item(u).input = <<97, NL, 98>> /\ Item(v).input = <<99, NL>>
    /\ FileAt(Item(u).path_out) = <<120, NL, 97, NL, 98, 97, NL>>
    /\ Emitted(v) >= 2

\* C13 as stated, its part that a finite run can refute: a worker whose
\* last turn failed and was reported has not stopped, and its units are the
\* ones it was started with.
C13_ErrorsNeverStopWorker ==
  \A w \in Workers :
    (trace[w] # <<>> /\ Last(trace[w])[2] \in Reports) =>
      /\ wpc[w] \in {"turn", "sleep"}
      /\ Len(workers_data[w]) = Cardinality({i \in 1..Len(Found) : (i - 1) % parallelism_num = w - 1})

\* C14 as stated (a panic of a report being left aside): a unit of
\* non-empty input whose wrap failed emits, at some later turn, a line
\* through a handle on the file at its output path.
C14_Failed(u) == u \in Units /\ Item(u).input # <<>> /\ JustDid(u, "wrap_err")
C14_Back(u) ==
  /\ u \in Units
  /\ \/ wpc[u[1]] = "crashed" \/ pc = "panicked"
     \/ JustDid(u, "line") /\ Item(u).writer.ino = dir[Item(u).path_out]
C14_RecoversFromWrapFailure ==
  \A u \in (1..MaxWorkers) \X (1..Cardinality(LivePaths)) :
    [](C14_Failed(u) => <>C14_Back(u))

\* C19 as stated (a panic of main's own report being left aside): the
\* panic of a worker thread, whichever it is in spawn order, is reported by
\* main in the end.
C19_Crashed(w) == w \in Workers /\ wpc[w] = "crashed"
C19_Told(w) == w \in Range(reported) \/ pc = "panicked"
C19_CrashReported ==
  \A w \in 1..MaxWorkers : [](C19_Crashed(w) => <>C19_Told(w))

====
